---- MODULE Spec2Model ----
(***************************************************************************)
(* Handwriting feature extraction of Neuro-Ink:                            *)
(*   src/training/02_feature_engineering.py  (FeatureEngineer)             *)
(*   src/training/01_data_preparation.py     (DataLoader)                  *)
(*                                                                         *)
(* Python dicts are functions whose DOMAIN is the set of keys present.     *)
(* Python ints are Integers.  numpy float64 values are binary floating     *)
(* point numbers m * 2^e rounded to nearest, ties to even, after every     *)
(* operation; the significand has Precision bits instead of 53 and the     *)
(* exponent is unbounded.  A float is kept normalised (m odd, or m = 0 and *)
(* e = 0), so equality of floats is equality of records.                   *)
(***************************************************************************)
EXTENDS Integers, Sequences, FiniteSets, TLC

(***************************************************************************)
(* Bounds of the model.                                                    *)
(***************************************************************************)
Precision == 9
MaxPoints == 4
MaxStrokes == 2
MaxFiles == 2
MaxLoaded == 4

(***************************************************************************)
(* Integer helpers.                                                        *)
(***************************************************************************)
RECURSIVE Pow2(_)
Pow2(n) == IF n <= 0 THEN 1 ELSE 2 * Pow2(n - 1)

Abs(n) == IF n < 0 THEN -n ELSE n

Sign(n) == IF n < 0 THEN -1 ELSE 1

RECURSIVE BitLen(_)
BitLen(n) == IF n = 0 THEN 0 ELSE 1 + BitLen(n \div 2)

RECURSIVE ISqrt(_)
ISqrt(n) ==
    IF n < 2 THEN n
    ELSE LET s == 2 * ISqrt(n \div 4)
         IN  IF (s + 1) * (s + 1) <= n THEN s + 1 ELSE s

(***************************************************************************)
(* float64 values and arithmetic (IEEE 754 round to nearest even).         *)
(***************************************************************************)
Fin(m, e) == [k |-> "fin", m |-> m, e |-> e]

Inf(s) == [k |-> "inf", m |-> s, e |-> 0]

NaN == [k |-> "nan", m |-> 0, e |-> 0]

Zero == Fin(0, 0)

RECURSIVE Norm(_, _)
Norm(m, e) ==
    IF m = 0 THEN Zero
    ELSE IF m % 2 = 0 THEN Norm(m \div 2, e + 1)
    ELSE Fin(m, e)

\* Round with the number k of bits to drop, then with the kept bits q, the
\* dropped bits r and half a unit in the last place
RoundTo(m, e, q, r, half) ==
    Norm(Sign(m) * (IF r > half \/ (r = half /\ q % 2 = 1) THEN q + 1 ELSE q), e)

RoundBits(m, e, k) ==
    IF k <= 0 THEN Norm(m, e)
    ELSE RoundTo(m, e + k, Abs(m) \div Pow2(k), Abs(m) % Pow2(k), Pow2(k - 1))

\* the float nearest to the exact value m * 2^e (ties to even)
Round(m, e) == RoundBits(m, e, BitLen(Abs(m)) - Precision)

\* int -> float64
FromInt(n) == Round(n, 0)

\* operands further apart than this many binary places: the smaller one is
\* below half a unit in the last place of the larger
MaxShift == 30 - Precision

FNeg(a) == [a EXCEPT !.m = -a.m]

\* a + b for finite non-zero a, b with a.e >= b.e
FAddOrdered(a, b) ==
    IF a.e - b.e > MaxShift THEN a
    ELSE Round(a.m * Pow2(a.e - b.e) + b.m, b.e)

FAddFin(a, b) ==
    IF a.m = 0 THEN b
    ELSE IF b.m = 0 THEN a
    ELSE IF a.e >= b.e THEN FAddOrdered(a, b)
    ELSE FAddOrdered(b, a)

FAdd(a, b) ==
    IF a.k = "nan" \/ b.k = "nan" THEN NaN
    ELSE IF a.k = "inf" THEN (IF b.k = "inf" /\ b.m # a.m THEN NaN ELSE a)
    ELSE IF b.k = "inf" THEN b
    ELSE FAddFin(a, b)

FSub(a, b) == FAdd(a, FNeg(b))

FMul(a, b) ==
    IF a.k = "nan" \/ b.k = "nan" THEN NaN
    ELSE IF a.k = "inf" \/ b.k = "inf"
         THEN (IF a.m = 0 \/ b.m = 0 THEN NaN ELSE Inf(Sign(a.m) * Sign(b.m)))
    ELSE Round(a.m * b.m, a.e + b.e)

\* the quotient num / den of naturals as num \div den and a sticky bit for
\* the remainder, times sign * 2^e
RoundQuotient(sign, num, den, e) ==
    Round(sign * (2 * (num \div den) + (IF num % den = 0 THEN 0 ELSE 1)), e - 1)

\* quotient of finite non-zero floats with the dividend shifted by s bits
FDivShift(a, b, s) ==
    RoundQuotient(Sign(a.m) * Sign(b.m), Abs(a.m) * Pow2(s), Abs(b.m), a.e - b.e - s)

\* the shift leaves Precision + 2 quotient bits
FDivFin(a, b) == FDivShift(a, b, BitLen(Abs(b.m)) + Precision + 2 - BitLen(Abs(a.m)))

\* numpy true_divide: x/0 is inf or nan (a RuntimeWarning, not an exception)
FDiv(a, b) ==
    IF a.k = "nan" \/ b.k = "nan" THEN NaN
    ELSE IF a.k = "inf" THEN (IF b.k = "inf" THEN NaN ELSE Inf(a.m * Sign(b.m)))
    ELSE IF b.k = "inf" THEN Zero
    ELSE IF b.m = 0 THEN (IF a.m = 0 THEN NaN ELSE Inf(Sign(a.m)))
    ELSE IF a.m = 0 THEN Zero
    ELSE FDivFin(a, b)

\* the root of n * 4^e as its integer root r and a sticky bit
RoundRoot(n, r, e) == Round(2 * r + (IF r * r = n THEN 0 ELSE 1), e - 1)

\* root of a finite positive float shifted by s bits, a.e - s even
FSqrtShift(a, s) == RoundRoot(a.m * Pow2(s), ISqrt(a.m * Pow2(s)), (a.e - s) \div 2)

FSqrtEven(a, s) == IF (a.e - s) % 2 = 0 THEN FSqrtShift(a, s) ELSE FSqrtShift(a, s + 1)

FSqrt(a) ==
    IF a.k = "nan" THEN NaN
    ELSE IF a.k = "inf" THEN (IF a.m > 0 THEN a ELSE NaN)
    ELSE IF a.m < 0 THEN NaN
    ELSE IF a.m = 0 THEN Zero
    ELSE FSqrtEven(a, 2 * Precision + 4 - BitLen(a.m))

FAbs(a) == [a EXCEPT !.m = Abs(a.m)]

FLess(a, b) ==
    IF a.k = "nan" \/ b.k = "nan" THEN FALSE
    ELSE IF a.k = "inf" THEN a.m < 0 /\ ~(b.k = "inf" /\ b.m < 0)
    ELSE IF b.k = "inf" THEN b.m > 0
    ELSE FSub(a, b).m < 0

FLeq(a, b) == a.k # "nan" /\ b.k # "nan" /\ ~FLess(b, a)

IsFinite(a) == a.k = "fin"

\* a decimal literal n/d of the JSON input read as a float64
Dec(n, d) == FDiv(FromInt(n), FromInt(d))

(***************************************************************************)
(* Python and numpy helpers.                                               *)
(***************************************************************************)
\* d.get(key, default)
Get(d, key, default) == IF key \in DOMAIN d THEN d[key] ELSE default

\* seq[i] with Python's 0-based index
At(seq, i) == seq[i + 1]

\* whether seq[i] raises IndexError (i >= 0 here)
InRange(seq, i) == i >= 0 /\ i < Len(seq)

PyMax(a, b) == IF a >= b THEN a ELSE b

Ints2Floats(xs) == [i \in 1..Len(xs) |-> FromInt(xs[i])]

RECURSIVE Flatten(_)
Flatten(ss) == IF ss = <<>> THEN <<>> ELSE Head(ss) \o Flatten(Tail(ss))

RECURSIVE SumFrom(_, _)
SumFrom(acc, xs) == IF xs = <<>> THEN acc ELSE SumFrom(FAdd(acc, Head(xs)), Tail(xs))

\* the builtin sum() over floats: left to right from 0
PySum(xs) == SumFrom(Zero, xs)

RECURSIVE IntSum(_)
IntSum(xs) == IF xs = <<>> THEN 0 ELSE Head(xs) + IntSum(Tail(xs))

\* one of the 8 accumulators of numpy's unrolled summation loop
RECURSIVE Lane(_, _, _)
Lane(xs, j, blocks) ==
    IF blocks = 1 THEN xs[j]
    ELSE FAdd(Lane(xs, j, blocks - 1), xs[8 * (blocks - 1) + j])

Combine8(r) ==
    FAdd(FAdd(FAdd(r[1], r[2]), FAdd(r[3], r[4])),
         FAdd(FAdd(r[5], r[6]), FAdd(r[7], r[8])))

\* np.add.reduce over float64 (pairwise_sum, up to its block size of 128)
NpSum(xs) ==
    IF Len(xs) < 8 THEN SumFrom(Zero, xs)
    ELSE SumFrom(Combine8([j \in 1..8 |-> Lane(xs, j, Len(xs) \div 8)]),
                 SubSeq(xs, 8 * (Len(xs) \div 8) + 1, Len(xs)))

NpMean(xs) == FDiv(NpSum(xs), FromInt(Len(xs)))

\* x = arr - arrmean; x = x * x
SquaredDeviations(xs, arrmean) ==
    [i \in 1..Len(xs) |-> FMul(FSub(xs[i], arrmean), FSub(xs[i], arrmean))]

\* np.std: sqrt(mean(|x - mean(x)|^2))
NpStd(xs) == FSqrt(NpMean(SquaredDeviations(xs, NpMean(xs))))

RECURSIVE NpMax(_)
NpMax(xs) ==
    IF Len(xs) = 1 THEN xs[1]
    ELSE LET m == NpMax(Tail(xs)) IN IF FLess(m, Head(xs)) THEN Head(xs) ELSE m

RECURSIVE NpMin(_)
NpMin(xs) ==
    IF Len(xs) = 1 THEN xs[1]
    ELSE LET m == NpMin(Tail(xs)) IN IF FLess(Head(xs), m) THEN Head(xs) ELSE m

RECURSIVE IntMax(_)
IntMax(xs) ==
    IF Len(xs) = 1 THEN xs[1]
    ELSE LET m == IntMax(Tail(xs)) IN IF Head(xs) > m THEN Head(xs) ELSE m

RECURSIVE IntMin(_)
IntMin(xs) ==
    IF Len(xs) = 1 THEN xs[1]
    ELSE LET m == IntMin(Tail(xs)) IN IF Head(xs) < m THEN Head(xs) ELSE m

(***************************************************************************)
(* FeatureEngineer (02_feature_engineering.py).  An extractor returns      *)
(* [raised, features, locals]: raised names the exception that left the    *)
(* call ("" for a normal return), features is the returned dict and        *)
(* locals holds the sample lists of the call.                              *)
(***************************************************************************)
EmptyDict == [key \in {} |-> Zero]

Return(features, locals) == [raised |-> "", features |-> features, locals |-> locals]

Raise(exception) == [raised |-> exception, features |-> EmptyDict, locals |-> EmptyDict]

_empty_kinematic_features ==
    [velocity_mean |-> Zero, velocity_std |-> Zero, velocity_max |-> Zero,
     acceleration_mean |-> Zero, acceleration_std |-> Zero,
     jerk_mean |-> Zero, jerk_std |-> Zero,
     path_length_total |-> Zero, path_length_mean |-> Zero]

_empty_spatial_features ==
    [bounding_box_width |-> Zero, bounding_box_height |-> Zero,
     bounding_box_area |-> Zero, canvas_coverage |-> Zero,
     center_offset_x |-> Zero, center_offset_y |-> Zero,
     center_offset_total |-> Zero]

_empty_temporal_features ==
    [stroke_duration_mean |-> Zero, stroke_duration_std |-> Zero,
     stroke_duration_max |-> Zero, inter_stroke_pause_mean |-> Zero,
     inter_stroke_pause_std |-> Zero, inter_stroke_pause_max |-> Zero,
     total_pause_time |-> Zero]

_empty_pressure_features ==
    [pressure_mean |-> Zero, pressure_std |-> Zero, pressure_min |-> Zero,
     pressure_max |-> Zero, pressure_range |-> Zero, pressure_cv |-> Zero]

\* stroke.get('points', [])
PointsOf(stroke) == Get(stroke, "points", <<>>)

\* ClampDt clamping at 0 instead of 1
ClampDt_AtZero(p0, p1) == PyMax(0, Get(p1, "timestamp", 0) - Get(p0, "timestamp", 0))

\* dt of lines 39, 53 and 62
ClampDt(p0, p1) == PyMax(1, Get(p1, "timestamp", 0) - Get(p0, "timestamp", 0))

\* np.sqrt(dx**2 + dy**2)
Hypot(dx, dy) == FSqrt(FromInt(dx * dx + dy * dy))

\* Dist as the sum of the two coordinate differences
Dist_Manhattan(p0, p1) ==
    FromInt(Abs(Get(p1, "x", 0) - Get(p0, "x", 0)) + Abs(Get(p1, "y", 0) - Get(p0, "y", 0)))

\* Dist with an absent coordinate read as 1
Dist_DefaultsToOne(p0, p1) ==
    Hypot(Get(p1, "x", 1) - Get(p0, "x", 1), Get(p1, "y", 0) - Get(p0, "y", 0))

\* dist of lines 40-42
Dist(p0, p1) == Hypot(Get(p1, "x", 0) - Get(p0, "x", 0), Get(p1, "y", 0) - Get(p0, "y", 0))

\* velocity of line 43
Velocity(dist, dt) == IF dt > 0 THEN FDiv(dist, FromInt(dt)) ELSE Zero

\* accel of line 54 and jerk of line 63
Derivative(curr, prev, dt) == IF dt > 0 THEN FDiv(FSub(curr, prev), FromInt(dt)) ELSE Zero

\* StrokeDists appending the velocity instead of the distance
StrokeDists_AppendsVelocity(points) ==
    [i \in 1..Len(points) - 1 |->
        Velocity(Dist(At(points, i - 1), At(points, i)),
                 ClampDt(At(points, i - 1), At(points, i)))]

\* the loop of lines 37-45: what it appends to path_lengths
StrokeDists(points) ==
    [i \in 1..Len(points) - 1 |-> Dist(At(points, i - 1), At(points, i))]

\* the loop of lines 37-45: stroke_velocities
StrokeVelocities(points) ==
    [i \in 1..Len(points) - 1 |->
        Velocity(Dist(At(points, i - 1), At(points, i)),
                 ClampDt(At(points, i - 1), At(points, i)))]

\* the point indices that the loop of lines 52-55 reads
AccelReads(stroke_velocities) ==
    UNION {{i + 1, i} : i \in 1..Len(stroke_velocities) - 1}

\* StrokeAccelerations dividing by the time step of the previous velocity sample
StrokeAccelerations_PreviousStep(points, stroke_velocities) ==
    IF Len(stroke_velocities) >= 2
    THEN [i \in 1..Len(stroke_velocities) - 1 |->
            Derivative(At(stroke_velocities, i), At(stroke_velocities, i - 1),
                       ClampDt(At(points, i - 1), At(points, i)))]
    ELSE <<>>

\* the loop of lines 50-55: stroke_accelerations
StrokeAccelerations(points, stroke_velocities) ==
    IF Len(stroke_velocities) >= 2
    THEN [i \in 1..Len(stroke_velocities) - 1 |->
            Derivative(At(stroke_velocities, i), At(stroke_velocities, i - 1),
                       ClampDt(At(points, i), At(points, i + 1)))]
    ELSE <<>>

\* JerkReads reading one point further
JerkReads_OneFurther(stroke_accelerations) ==
    UNION {{i + 3, i + 2} : i \in 1..Len(stroke_accelerations) - 1}

\* the point indices that the loop of lines 61-64 reads
JerkReads(stroke_accelerations) ==
    UNION {{i + 2, i + 1} : i \in 1..Len(stroke_accelerations) - 1}

\* the loop of lines 59-64: stroke_jerks
StrokeJerks(points, stroke_accelerations) ==
    IF Len(stroke_accelerations) >= 2
    THEN [i \in 1..Len(stroke_accelerations) - 1 |->
            Derivative(At(stroke_accelerations, i), At(stroke_accelerations, i - 1),
                       ClampDt(At(points, i + 1), At(points, i + 2)))]
    ELSE <<>>

\* what one stroke adds to the four pools, or the exception it raises
Samples(exception, sv, sa, sj, dists) ==
    [raised |-> exception, velocities |-> sv, accelerations |-> sa, jerks |-> sj,
     path_lengths |-> dists]

\* lines 58-65 of the loop body
SamplesWithAccelerations(points, sv, sa) ==
    IF \E i \in JerkReads(sa) : ~InRange(points, i)
    THEN Samples("IndexError", <<>>, <<>>, <<>>, <<>>)
    ELSE Samples("", sv, sa, StrokeJerks(points, sa), StrokeDists(points))

\* lines 47-65 of the loop body
SamplesWithVelocities(points, sv) ==
    IF \E i \in AccelReads(sv) : ~InRange(points, i)
    THEN Samples("IndexError", <<>>, <<>>, <<>>, <<>>)
    ELSE SamplesWithAccelerations(points, sv, StrokeAccelerations(points, sv))

\* PointsSamples adding a path length of 0 for a stroke of fewer than 2 points
PointsSamples_ZeroLengthPath(points) ==
    IF Len(points) < 2 THEN Samples("", <<>>, <<>>, <<>>, <<Zero>>)
    ELSE SamplesWithVelocities(points, StrokeVelocities(points))

\* lines 32-65 of the loop body
PointsSamples(points) ==
    IF Len(points) < 2 THEN Samples("", <<>>, <<>>, <<>>, <<>>)
    ELSE SamplesWithVelocities(points, StrokeVelocities(points))

\* the body of the loop of line 30 for one stroke
StrokeSamples(stroke) == PointsSamples(PointsOf(stroke))

\* KinematicStatistics taking the mean of the path lengths unguarded
KinematicStatistics_UnguardedMean(velocities, accelerations, jerks, path_lengths) ==
    Return(
      [velocity_mean |-> IF velocities # <<>> THEN NpMean(velocities) ELSE Zero,
       velocity_std |-> IF velocities # <<>> THEN NpStd(velocities) ELSE Zero,
       velocity_max |-> IF velocities # <<>> THEN NpMax(velocities) ELSE Zero,
       acceleration_mean |-> IF accelerations # <<>> THEN NpMean(accelerations) ELSE Zero,
       acceleration_std |-> IF accelerations # <<>> THEN NpStd(accelerations) ELSE Zero,
       jerk_mean |-> IF jerks # <<>> THEN NpMean(jerks) ELSE Zero,
       jerk_std |-> IF jerks # <<>> THEN NpStd(jerks) ELSE Zero,
       path_length_total |-> PySum(path_lengths),
       path_length_mean |-> NpMean(path_lengths)],
      [velocities |-> velocities, accelerations |-> accelerations,
       jerks |-> jerks, path_lengths |-> path_lengths])

\* lines 68-80
KinematicStatistics(velocities, accelerations, jerks, path_lengths) ==
    Return(
      [velocity_mean |-> IF velocities # <<>> THEN NpMean(velocities) ELSE Zero,
       velocity_std |-> IF velocities # <<>> THEN NpStd(velocities) ELSE Zero,
       velocity_max |-> IF velocities # <<>> THEN NpMax(velocities) ELSE Zero,
       acceleration_mean |-> IF accelerations # <<>> THEN NpMean(accelerations) ELSE Zero,
       acceleration_std |-> IF accelerations # <<>> THEN NpStd(accelerations) ELSE Zero,
       jerk_mean |-> IF jerks # <<>> THEN NpMean(jerks) ELSE Zero,
       jerk_std |-> IF jerks # <<>> THEN NpStd(jerks) ELSE Zero,
       path_length_total |-> PySum(path_lengths),
       path_length_mean |-> IF path_lengths # <<>> THEN NpMean(path_lengths) ELSE Zero],
      [velocities |-> velocities, accelerations |-> accelerations,
       jerks |-> jerks, path_lengths |-> path_lengths])

\* the pools after the loop of line 30 over the strokes' samples
KinematicOfSamples(per) ==
    IF \E s \in 1..Len(per) : per[s].raised # "" THEN Raise("IndexError")
    ELSE KinematicStatistics(Flatten([s \in 1..Len(per) |-> per[s].velocities]),
                             Flatten([s \in 1..Len(per) |-> per[s].accelerations]),
                             Flatten([s \in 1..Len(per) |-> per[s].jerks]),
                             Flatten([s \in 1..Len(per) |-> per[s].path_lengths]))

\* compute_kinematic_features running its loops over the points of all
\* strokes as one list
compute_kinematic_features_AcrossStrokes(strokes) ==
    IF strokes = <<>> THEN Return(_empty_kinematic_features, EmptyDict)
    ELSE KinematicOfSamples(
           <<PointsSamples(Flatten([s \in 1..Len(strokes) |-> PointsOf(strokes[s])]))>>)

compute_kinematic_features(strokes) ==
    IF strokes = <<>> THEN Return(_empty_kinematic_features, EmptyDict)
    ELSE KinematicOfSamples([s \in 1..Len(strokes) |-> StrokeSamples(strokes[s])])

\* the (x, y) pairs of one stroke (line 93)
StrokeXY(points) ==
    [i \in 1..Len(points) |-> <<Get(points[i], "x", 0), Get(points[i], "y", 0)>>]

\* all_points of lines 90-93
AllPoints(strokes) ==
    Flatten([s \in 1..Len(strokes) |-> StrokeXY(PointsOf(strokes[s]))])

\* points_array[:, c]
Column(all_points, c) == [i \in 1..Len(all_points) |-> all_points[i][c]]

\* Extent measured from the origin
Extent_FromOrigin(vs) == IntMax(vs)

\* max - min of one coordinate (lines 101-106)
Extent(vs) == IntMax(vs) - IntMin(vs)

\* CenterOffset from the far edge of the canvas instead of its center
CenterOffset_FromEdge(vs, canvas_dim) ==
    FSub(NpMean(Ints2Floats(vs)), FromInt(canvas_dim))

\* center - canvas_center of one coordinate (lines 112-115)
CenterOffset(vs, canvas_dim) ==
    FSub(NpMean(Ints2Floats(vs)), FDiv(FromInt(canvas_dim), FromInt(2)))

\* lines 104-123
SpatialStatistics(all_points, box_width, box_height, canvas_area, off_x, off_y) ==
    Return(
      [bounding_box_width |-> FromInt(box_width),
       bounding_box_height |-> FromInt(box_height),
       bounding_box_area |-> FromInt(box_width * box_height),
       canvas_coverage |-> FDiv(FromInt(box_width * box_height), FromInt(canvas_area)),
       center_offset_x |-> FAbs(off_x),
       center_offset_y |-> FAbs(off_y),
       center_offset_total |-> FSqrt(FAdd(FMul(off_x, off_x), FMul(off_y, off_y)))],
      [all_points |-> all_points])

\* CanvasArea without the height
CanvasArea_WidthOnly(canvas_size) == Get(canvas_size, "width", 1)

\* the denominator of line 108
CanvasArea(canvas_size) == Get(canvas_size, "width", 1) * Get(canvas_size, "height", 1)

\* lines 95-123
SpatialOfPoints(all_points, canvas_size) ==
    IF all_points = <<>> THEN Return(_empty_spatial_features, EmptyDict)
    ELSE SpatialStatistics(all_points,
                           Extent(Column(all_points, 1)), Extent(Column(all_points, 2)),
                           CanvasArea(canvas_size),
                           CenterOffset(Column(all_points, 1), Get(canvas_size, "width", 0)),
                           CenterOffset(Column(all_points, 2), Get(canvas_size, "height", 0)))

\* compute_spatial_features without the test of the canvas size
compute_spatial_features_IgnoresCanvas(strokes, canvas_size) ==
    IF strokes = <<>>
    THEN Return(_empty_spatial_features, EmptyDict)
    ELSE SpatialOfPoints(AllPoints(strokes), canvas_size)

compute_spatial_features(strokes, canvas_size) ==
    IF strokes = <<>> \/ DOMAIN canvas_size = {}
    THEN Return(_empty_spatial_features, EmptyDict)
    ELSE SpatialOfPoints(AllPoints(strokes), canvas_size)

\* DurationStrokes testing for startTime only
DurationStrokes_StartOnly(strokes) ==
    {s \in 1..Len(strokes) : "startTime" \in DOMAIN strokes[s]}

\* the strokes (1-based) that pass the test of line 135
DurationStrokes(strokes) ==
    {s \in 1..Len(strokes) : "startTime" \in DOMAIN strokes[s] /\ "endTime" \in DOMAIN strokes[s]}

\* durations of lines 133-137 (and of 01_data_preparation.py lines 71-74),
\* from stroke s on
RECURSIVE DurationsFrom(_, _)
DurationsFrom(strokes, s) ==
    IF s > Len(strokes) THEN <<>>
    ELSE (IF s \in DurationStrokes(strokes)
          THEN <<strokes[s]["endTime"] - strokes[s]["startTime"]>>
          ELSE <<>>) \o DurationsFrom(strokes, s + 1)

\* Durations counting a stroke without both time fields as a duration of 0
Durations_ZeroFilled(strokes) ==
    [s \in 1..Len(strokes) |->
        IF s \in DurationStrokes(strokes)
        THEN strokes[s]["endTime"] - strokes[s]["startTime"]
        ELSE 0]

\* Durations with a stroke that ends before it starts counted as 0
Durations_Clamped(strokes) ==
    [k \in 1..Len(DurationsFrom(strokes, 1)) |-> PyMax(0, DurationsFrom(strokes, 1)[k])]

Durations(strokes) == DurationsFrom(strokes, 1)

\* the stroke pairs (by the index i of curr_stroke) that pass the test of line 144
PauseStrokes(strokes) ==
    {i \in 1..Len(strokes) - 1 :
        "endTime" \in DOMAIN At(strokes, i - 1) /\ "startTime" \in DOMAIN At(strokes, i)}

\* Pause without the clamp
Pause_Unclamped(prev_stroke, curr_stroke) ==
    curr_stroke["startTime"] - prev_stroke["endTime"]

\* pause of lines 145-146
Pause(prev_stroke, curr_stroke) == PyMax(0, curr_stroke["startTime"] - prev_stroke["endTime"])

\* pauses of lines 140-146, from stroke index i on
RECURSIVE PausesFrom(_, _)
PausesFrom(strokes, i) ==
    IF i >= Len(strokes) THEN <<>>
    ELSE (IF i \in PauseStrokes(strokes)
          THEN <<Pause(At(strokes, i - 1), At(strokes, i))>>
          ELSE <<>>) \o PausesFrom(strokes, i + 1)

\* Pauses with the loop starting at index 0, where strokes[i-1] is the last stroke
Pauses_FromIndexZero(strokes) ==
    IF strokes = <<>> THEN <<>>
    ELSE (IF "endTime" \in DOMAIN strokes[Len(strokes)] /\ "startTime" \in DOMAIN strokes[1]
          THEN <<Pause(strokes[Len(strokes)], strokes[1])>>
          ELSE <<>>) \o PausesFrom(strokes, 1)

Pauses(strokes) == PausesFrom(strokes, 1)

\* a subscript of lines 136 and 145 on a key that the stroke lacks
TemporalKeyError(strokes) ==
    \/ \E s \in DurationStrokes(strokes) :
          ~({"startTime", "endTime"} \subseteq DOMAIN strokes[s])
    \/ \E i \in PauseStrokes(strokes) :
          "endTime" \notin DOMAIN At(strokes, i - 1) \/ "startTime" \notin DOMAIN At(strokes, i)

\* TemporalStatistics emitting the pause statistics only for a non-empty pool
TemporalStatistics_SkipsEmptyPool(durations, pauses) ==
    Return(
      IF pauses # <<>>
      THEN [stroke_duration_mean |->
                IF durations # <<>> THEN NpMean(Ints2Floats(durations)) ELSE Zero,
            stroke_duration_std |->
                IF durations # <<>> THEN NpStd(Ints2Floats(durations)) ELSE Zero,
            stroke_duration_max |->
                IF durations # <<>> THEN FromInt(IntMax(durations)) ELSE Zero,
            inter_stroke_pause_mean |-> NpMean(Ints2Floats(pauses)),
            inter_stroke_pause_std |-> NpStd(Ints2Floats(pauses)),
            inter_stroke_pause_max |-> FromInt(IntMax(pauses)),
            total_pause_time |-> FromInt(IntSum(pauses))]
      ELSE [stroke_duration_mean |->
                IF durations # <<>> THEN NpMean(Ints2Floats(durations)) ELSE Zero,
            stroke_duration_std |->
                IF durations # <<>> THEN NpStd(Ints2Floats(durations)) ELSE Zero,
            stroke_duration_max |->
                IF durations # <<>> THEN FromInt(IntMax(durations)) ELSE Zero,
            total_pause_time |-> Zero],
      [durations |-> durations, pauses |-> pauses])

\* lines 148-158
TemporalStatistics(durations, pauses) ==
    Return(
      [stroke_duration_mean |->
           IF durations # <<>> THEN NpMean(Ints2Floats(durations)) ELSE Zero,
       stroke_duration_std |->
           IF durations # <<>> THEN NpStd(Ints2Floats(durations)) ELSE Zero,
       stroke_duration_max |->
           IF durations # <<>> THEN FromInt(IntMax(durations)) ELSE Zero,
       inter_stroke_pause_mean |->
           IF pauses # <<>> THEN NpMean(Ints2Floats(pauses)) ELSE Zero,
       inter_stroke_pause_std |->
           IF pauses # <<>> THEN NpStd(Ints2Floats(pauses)) ELSE Zero,
       inter_stroke_pause_max |->
           IF pauses # <<>> THEN FromInt(IntMax(pauses)) ELSE Zero,
       total_pause_time |-> FromInt(IntSum(pauses))],
      [durations |-> durations, pauses |-> pauses])

compute_temporal_features(strokes) ==
    IF strokes = <<>> THEN Return(_empty_temporal_features, EmptyDict)
    ELSE IF TemporalKeyError(strokes) THEN Raise("KeyError")
    ELSE TemporalStatistics(Durations(strokes), Pauses(strokes))

\* whether line 168 lets the point's pressure into the pool
HasPressure(point) == "pressure" \in DOMAIN point

\* PointPressures counting a point without a pressure as pressure 0
RECURSIVE PointPressures_ZeroFilled(_)
PointPressures_ZeroFilled(points) ==
    IF points = <<>> THEN <<>>
    ELSE <<Get(Head(points), "pressure", Zero)>> \o PointPressures_ZeroFilled(Tail(points))

\* the pressures of one stroke's points (lines 167-169)
RECURSIVE PointPressures(_)
PointPressures(points) ==
    IF points = <<>> THEN <<>>
    ELSE (IF HasPressure(Head(points)) THEN <<Head(points)["pressure"]>> ELSE <<>>)
         \o PointPressures(Tail(points))

\* pressures of lines 164-169 (and of 01_data_preparation.py lines 82-87)
Pressures(strokes) ==
    Flatten([s \in 1..Len(strokes) |-> PointPressures(PointsOf(strokes[s]))])

\* pressure_cv of line 180
PressureCV(std, mean) == IF FLess(Zero, mean) THEN FDiv(std, mean) ELSE Zero

\* lines 174-183
PressureStatistics(pressures) ==
    Return(
      [pressure_mean |-> NpMean(pressures),
       pressure_std |-> NpStd(pressures),
       pressure_min |-> NpMin(pressures),
       pressure_max |-> NpMax(pressures),
       pressure_range |-> FSub(NpMax(pressures), NpMin(pressures)),
       pressure_cv |-> PressureCV(NpStd(pressures), NpMean(pressures))],
      [pressures |-> pressures])

\* lines 171-183
PressureOfPool(pressures) ==
    IF pressures = <<>> THEN Return(_empty_pressure_features, [pressures |-> pressures])
    ELSE PressureStatistics(pressures)

compute_pressure_features(strokes) == PressureOfPool(Pressures(strokes))

(***************************************************************************)
(* DataLoader (01_data_preparation.py).  Numbers of a feature dict are     *)
(* floats throughout the model: Python compares 0 and 0.0 equal.           *)
(***************************************************************************)
\* dict.update
Update(d, u) ==
    [key \in DOMAIN d \cup DOMAIN u |-> IF key \in DOMAIN u THEN u[key] ELSE d[key]]

RECURSIVE TotalPoints(_)
TotalPoints(strokes) ==
    IF strokes = <<>> THEN 0 ELSE Len(PointsOf(Head(strokes))) + TotalPoints(Tail(strokes))

\* lines 66-68
CountFeatures(strokes) ==
    [stroke_count |-> FromInt(Len(strokes)), total_points |-> FromInt(TotalPoints(strokes))]

\* lines 76-79
TimingFeatures(durations) ==
    IF durations # <<>>
    THEN [stroke_duration_mean |-> NpMean(Ints2Floats(durations)),
          stroke_duration_std |-> NpStd(Ints2Floats(durations)),
          total_drawing_time |-> FromInt(IntSum(durations))]
    ELSE EmptyDict

\* PressureBasics with the minimum and the maximum exchanged
PressureBasics_SwappedMinMax(pressures) ==
    IF pressures # <<>>
    THEN [pressure_mean |-> NpMean(pressures),
          pressure_std |-> NpStd(pressures),
          pressure_min |-> NpMax(pressures),
          pressure_max |-> NpMin(pressures)]
    ELSE EmptyDict

\* lines 89-93
PressureBasics(pressures) ==
    IF pressures # <<>>
    THEN [pressure_mean |-> NpMean(pressures),
          pressure_std |-> NpStd(pressures),
          pressure_min |-> NpMin(pressures),
          pressure_max |-> NpMax(pressures)]
    ELSE EmptyDict

_compute_stroke_features(strokes) ==
    IF strokes = <<>> THEN EmptyDict
    ELSE Update(Update(CountFeatures(strokes), TimingFeatures(Durations(strokes))),
                PressureBasics(Pressures(strokes)))

\* lines 45-49
SessionFields(session) ==
    [session_id |-> Get(session, "id", "unknown"),
     test_type |-> Get(session, "testType", "unknown"),
     created_at |-> FromInt(Get(session, "createdAt", 0))]

\* lines 52-57
WithStrokeFeatures(features, data) ==
    IF "strokes" \in DOMAIN data
    THEN Update(features, _compute_stroke_features(data["strokes"]))
    ELSE features

extract_features(session) ==
    WithStrokeFeatures(SessionFields(session), Get(session, "data", EmptyDict))

\* what json.load gives for one file of the data directory (lines 30-35):
\* the sessions of a list, the one session of an object, nothing for a file
\* that raises and is skipped (lines 37-38)
FileSessions(file) ==
    IF file.json = "list" THEN file.value
    ELSE IF file.json = "object" THEN <<file.value>>
    ELSE <<>>

\* load_sessions giving up at the first file that raises
RECURSIVE load_sessions_StopsAtInvalid(_, _)
load_sessions_StopsAtInvalid(sessions, json_files) ==
    IF json_files = <<>> \/ Head(json_files).json = "invalid" THEN sessions
    ELSE load_sessions_StopsAtInvalid(sessions \o FileSessions(Head(json_files)),
                                      Tail(json_files))

\* self.sessions after load_sessions (lines 28-41)
RECURSIVE load_sessions(_, _)
load_sessions(sessions, json_files) ==
    IF json_files = <<>> THEN sessions
    ELSE load_sessions(sessions \o FileSessions(Head(json_files)), Tail(json_files))

\* the rows of a loop that updates one record shared by all sessions
RECURSIVE RowsCarrying(_, _)
RowsCarrying(carried, sessions) ==
    IF sessions = <<>> THEN <<>>
    ELSE <<Update(carried, extract_features(Head(sessions)))>>
         \o RowsCarrying(Update(carried, extract_features(Head(sessions))), Tail(sessions))

\* Rows with the feature record kept from one session to the next
Rows_SharedRecord(sessions) == RowsCarrying(EmptyDict, sessions)

\* rows of lines 102-105
RECURSIVE Rows(_)
Rows(sessions) ==
    IF sessions = <<>> THEN <<>>
    ELSE <<extract_features(Head(sessions))>> \o Rows(Tail(sessions))

\* lines 102-109 for the loaded sessions
DatasetOf(sessions) == [sessions |-> sessions, rows |-> Rows(sessions)]

\* self.sessions after create_dataset, and its rows (lines 99-109)
create_dataset(sessions, json_files) ==
    DatasetOf(IF sessions = <<>> THEN load_sessions(sessions, json_files) ELSE sessions)

(***************************************************************************)
(* Sessions: the input contract of the extractors.                         *)
(***************************************************************************)
SeqsUpTo(S, n) == UNION {[1..len -> S] : len \in 0..n}

\* every dict with some of the keys of d
SubDicts(d) == {[key \in keys |-> d[key]] : keys \in SUBSET DOMAIN d}

Point(x, y, timestamp) == [x |-> x, y |-> y, timestamp |-> timestamp]

Canvas == [width |-> 8, height |-> 16]

Session(strokes, canvasSize) ==
    [id |-> "s1", testType |-> "spiral", createdAt |-> 7,
     data |-> [strokes |-> strokes, canvasSize |-> canvasSize]]

\* sessions of n strokes, 0 <= n <= maxStrokes, each a dict of strokeSet
SessionsOf(strokeSet, maxStrokes, canvasSize) ==
    {Session(strokes, canvasSize) : strokes \in SeqsUpTo(strokeSet, maxStrokes)}

\* one stroke of up to MaxPoints points: two places, equal, growing and
\* falling timestamps, and points that lack coordinates or the timestamp
KinPoints ==
    {Point(0, 0, 0), Point(3, 4, 0), Point(3, 4, 2), [x |-> 3, y |-> 4], [timestamp |-> 2]}

KinSessions ==
    SessionsOf({[points |-> pts] : pts \in SeqsUpTo(KinPoints, MaxPoints)}, 1, Canvas)

\* up to MaxStrokes strokes of no, one, two and three points
PoolStrokes ==
    {[points |-> pts] :
        pts \in {<<>>, <<Point(3, 4, 2)>>,
                 <<Point(0, 0, 0), Point(3, 4, 2)>>,
                 <<Point(3, 4, 2), Point(0, 0, 5)>>,
                 <<Point(0, 0, 0), Point(3, 4, 2), Point(3, 0, 3)>>,
                 <<Point(3, 0, 3), Point(3, 4, 2), Point(6, 8, 9)>>}}
    \cup {EmptyDict}

PoolSessions == SessionsOf(PoolStrokes, MaxStrokes, Canvas)

\* strokes with and without startTime and endTime: overlapping strokes,
\* strokes that end before they start
TimedStrokes ==
    UNION {SubDicts([startTime |-> st, endTime |-> et]) : st \in {0, 300}, et \in {100, 500}}

TemSessions == SessionsOf(TimedStrokes, MaxStrokes + 1, Canvas)

\* points with and without a pressure value
PressurePoints == {EmptyDict} \cup {[pressure |-> pv] : pv \in {Zero, Dec(1, 2), Dec(7, 10)}}

PreSessions ==
    SessionsOf({[points |-> pts] : pts \in SeqsUpTo(PressurePoints, MaxPoints)}, 1, Canvas)
    \cup SessionsOf({[points |-> pts] :
                        pts \in {<<>>, <<EmptyDict>>, <<[pressure |-> Dec(7, 10)]>>,
                                 <<[pressure |-> Dec(7, 10)], EmptyDict>>,
                                 <<[pressure |-> Dec(1, 2)], [pressure |-> Dec(7, 10)]>>}},
                    MaxStrokes, Canvas)

\* canvases with a missing or zero width or height
Canvases == UNION {SubDicts([width |-> w, height |-> h]) : w \in {0, 8}, h \in {0, 16}}

SpaPoints == {[x |-> 0, y |-> 0], [x |-> 3, y |-> 4], [x |-> 6, y |-> 8], [y |-> 4]}

SpaSessions ==
    UNION {SessionsOf({[points |-> pts] : pts \in SeqsUpTo(SpaPoints, MaxPoints - 1)},
                      1, canvasSize) : canvasSize \in Canvases}

\* one stroke of three points, constant pressure, on a canvas of 500 by 500
ExamplePoints ==
    <<[x |-> 0, y |-> 0, timestamp |-> 0, pressure |-> Dec(1, 2)],
      [x |-> 3, y |-> 4, timestamp |-> 100, pressure |-> Dec(1, 2)],
      [x |-> 6, y |-> 8, timestamp |-> 200, pressure |-> Dec(1, 2)]>>

ExampleSession == Session(<<[points |-> ExamplePoints]>>, [width |-> 500, height |-> 500])

\* a drawing that leaves the canvas on both sides
OutsideSession ==
    Session(<<[points |-> <<[x |-> -2, y |-> -4], [x |-> 10, y |-> 20]>>]>>, Canvas)

\* one stroke of ten points along a diagonal, one every 10 ms
DiagonalSession ==
    Session(<<[points |-> [i \in 1..10 |-> Point(i - 1, i - 1, 10 * (i - 1))]]>>, Canvas)

\* every subset of the optional fields of a point, a stroke and the canvas
FullPoint == [x |-> 3, y |-> 4, timestamp |-> 2, pressure |-> Dec(7, 10)]

SparsePointLists ==
    {<<>>} \cup {<<p>> : p \in SubDicts(FullPoint)}
    \cup {<<p, [x |-> 6, y |-> 8, timestamp |-> 5, pressure |-> Dec(1, 2)]>> :
            p \in SubDicts(FullPoint)}

SparseStrokes ==
    UNION {SubDicts([points |-> pts, startTime |-> 0, endTime |-> 100]) :
             pts \in SparsePointLists}

SparseSessions ==
    UNION {SessionsOf(SparseStrokes, 1, canvasSize) : canvasSize \in SubDicts(Canvas)}
    \cup SessionsOf({[points |-> pts] : pts \in SeqsUpTo({FullPoint, EmptyDict}, MaxPoints)},
                    1, Canvas)

\* sessions without an id, a test type, a creation time, data, strokes or
\* a canvas size
BareSessions ==
    UNION {SubDicts([id |-> "s1", testType |-> "spiral", createdAt |-> 7, data |-> data]) :
             data \in UNION {SubDicts([strokes |-> strokes, canvasSize |-> Canvas]) :
                               strokes \in {<<>>, <<EmptyDict>>,
                                            <<[points |-> <<Point(0, 0, 0)>>]>>,
                                            <<[points |-> <<FullPoint>>,
                                               startTime |-> 0, endTime |-> 100]>>}}}

\* sessions of a data directory: the example, one without strokes, one
\* without any field but its id
LoaderSessions ==
    {ExampleSession,
     [id |-> "s2", testType |-> "clock", createdAt |-> 9, data |-> [strokes |-> <<>>]],
     [id |-> "s3"]}

\* files of a data directory: lists of sessions, single sessions, a file
\* that is no JSON
Files ==
    {[json |-> "list", value |-> ss] :
        ss \in {<<>>, <<ExampleSession>>,
                <<ExampleSession, [id |-> "s3"]>>, <<[id |-> "s3"], ExampleSession>>}}
    \cup {[json |-> "object", value |-> ss] : ss \in LoaderSessions \ {ExampleSession}}
    \cup {[json |-> "invalid"]}

\* data directories of up to MaxFiles files
Directories == SeqsUpTo(Files, MaxFiles)

\* the scripts of the five steps, in the order of main (lines 62-102)
Scripts ==
    <<"01_data_preparation.py", "02_feature_engineering.py", "03_model_training.py",
      "04_model_evaluation.py", "05_model_export.py">>

\* the flag that skips each step (lines 42-46)
SkipFlags ==
    <<"skip_data_prep", "skip_feature_eng", "skip_training", "skip_evaluation", "skip_export">>

Range(seq) == {seq[i] : i \in 1..Len(seq)}

\* result.returncode of a script (line 24): success, an uncaught exception,
\* a usage error
ExitCodes == {0, 1, 2}

\* run_script: False when the script exited non-zero (lines 26-36)
run_script(returncode) == returncode = 0

(***************************************************************************)
(* State: one session, a FeatureEngineer and a DataLoader method applied   *)
(* to it, and what the last call returned.                                 *)
(***************************************************************************)
VARIABLES session, feature_names, called, raised, features, locals, data_dir, sessions,
          args, step, started, returncodes, returned

\* the state of the classes
classes == <<session, feature_names, called, raised, features, locals, data_dir, sessions>>

\* the state of a run of the pipeline: the parsed arguments, the step that
\* main has reached, the scripts run so far with their exit codes, and what
\* main returned (<<>> while it runs)
pipeline == <<args, step, started, returncodes, returned>>

vars == <<classes, pipeline>>

\* main before its first step (lines 48-56)
PipelineStarts ==
    /\ step = 1
    /\ started = <<>>
    /\ returncodes = <<>>
    /\ returned = <<>>

\* the arguments the extractors get from a session
StrokesOf(s) == Get(Get(s, "data", EmptyDict), "strokes", <<>>)

CanvasOf(s) == Get(Get(s, "data", EmptyDict), "canvasSize", EmptyDict)

Start(inputs, directories) ==
    /\ session \in inputs
    /\ data_dir \in directories
    /\ sessions = <<>>
    /\ feature_names = <<>>
    /\ called = "none"
    /\ raised = ""
    /\ features = EmptyDict
    /\ locals = EmptyDict
    /\ args = [flag \in Range(SkipFlags) |-> FALSE]
    /\ PipelineStarts

Init == Start(SparseSessions, {<<>>})

InitBare == Start(BareSessions, {<<>>})

InitKin == Start(KinSessions \cup PoolSessions \cup {ExampleSession, DiagonalSession}, {<<>>})

\* the sessions of several strokes, the long stroke, and the strokes of up
\* to two points with and without coordinates and timestamps
InitPool ==
    Start(PoolSessions \cup {DiagonalSession}
            \cup SessionsOf({[points |-> pts] : pts \in SeqsUpTo(KinPoints, 2)}, 1, Canvas),
          {<<>>})

InitSpa == Start(SpaSessions \cup {ExampleSession, OutsideSession}, {<<>>})

InitTem == Start(TemSessions, {<<>>})

InitPre == Start(PreSessions, {<<>>})

InitLoad == Start(LoaderSessions, Directories)

\* Returns with the method keeping the names of its features on the instance
Returns_KeepsFeatureNames(name, r) ==
    /\ called' = name
    /\ raised' = r.raised
    /\ features' = r.features
    /\ locals' = r.locals
    /\ feature_names' = <<name>>
    /\ UNCHANGED <<session, data_dir, sessions, pipeline>>

Returns(name, r) ==
    /\ called' = name
    /\ raised' = r.raised
    /\ features' = r.features
    /\ locals' = r.locals
    /\ UNCHANGED <<session, feature_names, data_dir, sessions, pipeline>>

ComputeKinematic ==
    Returns("compute_kinematic_features", compute_kinematic_features(StrokesOf(session)))

ComputeSpatial ==
    Returns("compute_spatial_features",
            compute_spatial_features(StrokesOf(session), CanvasOf(session)))

ComputeTemporal ==
    Returns("compute_temporal_features", compute_temporal_features(StrokesOf(session)))

ComputePressure ==
    Returns("compute_pressure_features", compute_pressure_features(StrokesOf(session)))

ExtractFeatures ==
    Returns("extract_features", Return(extract_features(session), EmptyDict))

\* DataLoader.load_sessions: returns self.sessions
LoadSessions ==
    /\ Len(load_sessions(sessions, data_dir)) <= MaxLoaded
    /\ sessions' = load_sessions(sessions, data_dir)
    /\ called' = "load_sessions"
    /\ raised' = ""
    /\ features' = EmptyDict
    /\ locals' = EmptyDict
    /\ UNCHANGED <<session, feature_names, data_dir, pipeline>>

\* DataLoader.create_dataset: returns the table of its rows
CreateDataset ==
    /\ sessions' = create_dataset(sessions, data_dir).sessions
    /\ called' = "create_dataset"
    /\ raised' = ""
    /\ features' = EmptyDict
    /\ locals' = [rows |-> create_dataset(sessions, data_dir).rows]
    /\ UNCHANGED <<session, feature_names, data_dir, pipeline>>

Next ==
    \/ ComputeKinematic
    \/ ComputeSpatial
    \/ ComputeTemporal
    \/ ComputePressure
    \/ ExtractFeatures
    \/ LoadSessions
    \/ CreateDataset

Spec == Init /\ [][Next]_vars

SpecBare == InitBare /\ [][Next]_vars

SpecKin == InitKin /\ [][Next]_vars

SpecPool == InitPool /\ [][Next]_vars

SpecSpa == InitSpa /\ [][Next]_vars

SpecTem == InitTem /\ [][Next]_vars

SpecPre == InitPre /\ [][Next]_vars

SpecLoad == InitLoad /\ [][Next]_vars

(***************************************************************************)
(* The training pipeline (run_training_pipeline.py) is a program of its    *)
(* own: main runs the five scripts as subprocesses and sees only their     *)
(* exit codes.                                                             *)
(***************************************************************************)
\* every combination of the five --skip flags (lines 42-48)
InitPipeline ==
    /\ session = ExampleSession
    /\ data_dir = <<>>
    /\ sessions = <<>>
    /\ feature_names = <<>>
    /\ called = "none"
    /\ raised = ""
    /\ features = EmptyDict
    /\ locals = EmptyDict
    /\ args \in [Range(SkipFlags) -> BOOLEAN]
    /\ PipelineStarts

\* RunStep going on to the next step whatever run_script returned
RunStep_ContinuesOnFailure ==
    /\ returned = <<>>
    /\ step <= Len(Scripts)
    /\ ~args[SkipFlags[step]]
    /\ \E returncode \in ExitCodes :
          /\ started' = Append(started, Scripts[step])
          /\ returncodes' = Append(returncodes, returncode)
          /\ step' = step + 1
          /\ returned' = returned
    /\ UNCHANGED <<classes, args>>

\* a step that is not skipped: run_script, and return 1 when it failed
\* (lines 59-64, 69-74, 79-84, 89-94, 99-104)
RunStep ==
    /\ returned = <<>>
    /\ step <= Len(Scripts)
    /\ ~args[SkipFlags[step]]
    /\ \E returncode \in ExitCodes :
          /\ started' = Append(started, Scripts[step])
          /\ returncodes' = Append(returncodes, returncode)
          /\ IF run_script(returncode)
             THEN step' = step + 1 /\ returned' = returned
             ELSE step' = step /\ returned' = <<1>>
    /\ UNCHANGED <<classes, args>>

\* a skipped step (lines 65-66, 75-76, 85-86, 95-96, 105-106)
SkipStep ==
    /\ returned = <<>>
    /\ step <= Len(Scripts)
    /\ args[SkipFlags[step]]
    /\ step' = step + 1
    /\ UNCHANGED <<classes, args, started, returncodes, returned>>

\* the end of main (lines 108-114)
PipelineReturns ==
    /\ returned = <<>>
    /\ step > Len(Scripts)
    /\ returned' = <<0>>
    /\ UNCHANGED <<classes, args, step, started, returncodes>>

PipelineNext ==
    \/ RunStep
    \/ SkipStep
    \/ PipelineReturns

SpecPipeline == InitPipeline /\ [][PipelineNext]_vars

(***************************************************************************)
(* Claims.                                                                 *)
(***************************************************************************)
Extractors ==
    {"compute_kinematic_features", "compute_spatial_features",
     "compute_temporal_features", "compute_pressure_features"}

\* the all-zero default record of an extractor
DefaultOf(name) ==
    CASE name = "compute_kinematic_features" -> _empty_kinematic_features
      [] name = "compute_spatial_features" -> _empty_spatial_features
      [] name = "compute_temporal_features" -> _empty_temporal_features
      [] name = "compute_pressure_features" -> _empty_pressure_features

MetadataKeys == {"session_id", "test_type", "created_at", "stroke_count", "total_points"}

ExtractorKeys == UNION {DOMAIN DefaultOf(name) : name \in Extractors}

\* C1: the aggregated feature record of every session has one and the same
\* key set: the keys of the four extractors and the five metadata keys.
C1_FixedKeySet ==
    called = "extract_features" => DOMAIN features = ExtractorKeys \cup MetadataKeys

\* C2: for a session with zero strokes the aggregated record is the union of
\* the four all-zero default records with stroke_count = 0, total_points = 0
\* and the session's id, test type and creation time.
C2_ZeroStrokesRecord ==
    (called = "extract_features" /\ StrokesOf(session) = <<>>)
    => features =
         Update(Update(Update(Update(Update(SessionFields(session),
                                            [stroke_count |-> Zero, total_points |-> Zero]),
                                     _empty_kinematic_features),
                              _empty_spatial_features),
                       _empty_temporal_features),
                _empty_pressure_features)

\* C3: each extractor returns exactly its documented key set (9, 7, 7 and 6
\* keys), the key set of its all-zero default record, on every input.
C3_ExtractorKeySets ==
    /\ (called \in Extractors /\ raised = "") => DOMAIN features = DOMAIN DefaultOf(called)
    /\ Cardinality(DOMAIN _empty_kinematic_features) = 9
    /\ Cardinality(DOMAIN _empty_spatial_features) = 7
    /\ Cardinality(DOMAIN _empty_temporal_features) = 7
    /\ Cardinality(DOMAIN _empty_pressure_features) = 6

\* a stroke with two points and no times, so that the kinematic and the
\* temporal extractor take their computed path with empty pools
C3_Witness ==
    /\ called = "compute_temporal_features"
    /\ StrokesOf(session) # <<>>
    /\ locals.durations = <<>>
    /\ features # EmptyDict

\* C4: each of the four extractors returns a record and never raises,
\* whatever subset of points, x, y, timestamp, pressure, startTime, endTime,
\* canvas width and canvas height is absent.
C4_NeverRaises ==
    called \in Extractors => (raised = "" /\ DOMAIN features # {})

\* the temporal extractor returned for a stroke that has a startTime and no
\* endTime
C4_Witness ==
    /\ called = "compute_temporal_features"
    /\ raised = ""
    /\ \E s \in 1..Len(StrokesOf(session)) :
          /\ "startTime" \in DOMAIN StrokesOf(session)[s]
          /\ "endTime" \notin DOMAIN StrokesOf(session)[s]

\* C5: compute_kinematic_features returns the all-zero default record for a
\* session with zero strokes and for a session in which every stroke has
\* fewer than 2 points.
C5_KinematicDefault ==
    (/\ called = "compute_kinematic_features"
     /\ \A s \in 1..Len(StrokesOf(session)) : Len(PointsOf(StrokesOf(session)[s])) < 2)
    => (raised = "" /\ features = _empty_kinematic_features)

\* strokes, each of fewer than 2 points, one of them with a point
C5_Witness ==
    /\ called = "compute_kinematic_features"
    /\ StrokesOf(session) # <<>>
    /\ \A s \in 1..Len(StrokesOf(session)) : Len(PointsOf(StrokesOf(session)[s])) < 2
    /\ \E s \in 1..Len(StrokesOf(session)) : Len(PointsOf(StrokesOf(session)[s])) = 1

\* the number of velocity samples of the strokes before stroke s
RECURSIVE SamplesBefore(_, _)
SamplesBefore(strokes, s) ==
    IF s <= 1 THEN 0
    ELSE SamplesBefore(strokes, s - 1)
         + (IF Len(PointsOf(strokes[s - 1])) < 2 THEN 0 ELSE Len(PointsOf(strokes[s - 1])) - 1)

\* t[i] - t[i-1] of the points i-1 and i (1-based: i and i+1) of a stroke
RawDt(points, i) == Get(points[i + 1], "timestamp", 0) - Get(points[i], "timestamp", 0)

\* the velocity sample of the points i and i+1 (1-based) of stroke s
VelocitySample(s, i) == locals.velocities[SamplesBefore(StrokesOf(session), s) + i]

AllFinite(samples) == \A n \in 1..Len(samples) : IsFinite(samples[n])

\* C6: the time step of two consecutive points is max(1, t[i] - t[i-1]): with
\* identical or decreasing timestamps the velocity sample is dist/1, and no
\* velocity, acceleration or jerk sample is infinite or not a number.
C6_ClampedTimeStep ==
    (called = "compute_kinematic_features" /\ raised = "" /\ StrokesOf(session) # <<>>)
    => /\ \A s \in 1..Len(StrokesOf(session)) :
            LET points == PointsOf(StrokesOf(session)[s]) IN
            \A i \in 1..Len(points) - 1 :
               /\ RawDt(points, i) <= 0
                     => VelocitySample(s, i) = Dist(points[i], points[i + 1])
               /\ RawDt(points, i) >= 1
                     => VelocitySample(s, i)
                          = FDiv(Dist(points[i], points[i + 1]), FromInt(RawDt(points, i)))
       /\ AllFinite(locals.velocities)
       /\ AllFinite(locals.accelerations)
       /\ AllFinite(locals.jerks)

\* two points apart with the same timestamp, and two with decreasing ones
C6_Witness ==
    /\ called = "compute_kinematic_features"
    /\ Len(StrokesOf(session)) = 1
    /\ LET points == PointsOf(StrokesOf(session)[1]) IN
       /\ Len(points) >= 3
       /\ RawDt(points, 1) = 0
       /\ RawDt(points, 2) < 0
       /\ locals.velocities[1] = FromInt(5)
       /\ locals.velocities[2] = FromInt(5)

\* the sum of max(0, startTime[i] - endTime[i-1]) over the strokes 2..n that
\* have a startTime after a stroke that has an endTime
RECURSIVE ClampedPauseSum(_, _)
ClampedPauseSum(strokes, n) ==
    IF n < 2 THEN 0
    ELSE ClampedPauseSum(strokes, n - 1)
         + (IF "endTime" \in DOMAIN strokes[n - 1] /\ "startTime" \in DOMAIN strokes[n]
            THEN (IF strokes[n]["startTime"] > strokes[n - 1]["endTime"]
                  THEN strokes[n]["startTime"] - strokes[n - 1]["endTime"]
                  ELSE 0)
            ELSE 0)

\* C7: the pause between consecutive strokes is max(0, startTime[i] -
\* endTime[i-1]); total_pause_time is the sum of these clamped pauses, and
\* the pause mean, maximum and total are never negative.
C7_ClampedPauses ==
    (called = "compute_temporal_features" /\ raised = "")
    => /\ features.total_pause_time
            = FromInt(ClampedPauseSum(StrokesOf(session), Len(StrokesOf(session))))
       /\ FLeq(Zero, features.inter_stroke_pause_mean)
       /\ FLeq(Zero, features.inter_stroke_pause_max)
       /\ FLeq(Zero, features.total_pause_time)
       /\ StrokesOf(session) # <<>> => \A n \in 1..Len(locals.pauses) : locals.pauses[n] >= 0

\* a stroke that starts at 300 after a stroke that ends at 500, then a
\* stroke that starts after the one before it ended
C7_Witness ==
    /\ called = "compute_temporal_features"
    /\ Len(StrokesOf(session)) = 3
    /\ Get(StrokesOf(session)[1], "endTime", 0) = 500
    /\ Get(StrokesOf(session)[2], "startTime", 0) = 300
    /\ locals.pauses = <<0, 200>>
    /\ features.total_pause_time = FromInt(200)

\* whether the pressure values of the session are all p
ConstantPressure(p) ==
    /\ Pressures(StrokesOf(session)) # <<>>
    /\ \A n \in 1..Len(Pressures(StrokesOf(session))) : Pressures(StrokesOf(session))[n] = p

\* C8: when every pressure-bearing point has the same pressure p,
\* pressure_std = 0, pressure_range = 0 and pressure_cv = 0; pressure_cv is
\* std/mean when mean > 0 and 0 otherwise.
C8_ConstantPressure ==
    called = "compute_pressure_features"
    => /\ (\E p \in {Zero, Dec(1, 2), Dec(7, 10)} : ConstantPressure(p))
            => /\ features.pressure_std = Zero
               /\ features.pressure_range = Zero
               /\ features.pressure_cv = Zero
       /\ features.pressure_cv =
             (IF FLess(Zero, features.pressure_mean)
              THEN FDiv(features.pressure_std, features.pressure_mean)
              ELSE Zero)
       /\ IsFinite(features.pressure_cv)

\* the session with the points that have no pressure value removed
RECURSIVE WithPressure(_)
WithPressure(points) ==
    IF points = <<>> THEN <<>>
    ELSE (IF "pressure" \in DOMAIN Head(points) THEN <<Head(points)>> ELSE <<>>)
         \o WithPressure(Tail(points))

PressureBearing(strokes) ==
    [s \in 1..Len(strokes) |->
        IF "points" \in DOMAIN strokes[s]
        THEN [strokes[s] EXCEPT !["points"] = WithPressure(strokes[s]["points"])]
        ELSE strokes[s]]

\* C9: compute_pressure_features pools only the points that carry a
\* pressure: the six statistics are those of the session with the other
\* points removed, and the all-zero default record when no point has one.
C9_PressurelessSkipped ==
    called = "compute_pressure_features"
    => /\ raised = ""
       /\ features = compute_pressure_features(PressureBearing(StrokesOf(session))).features
       /\ (\A s \in 1..Len(StrokesOf(session)) :
              WithPressure(PointsOf(StrokesOf(session)[s])) = <<>>)
            => features = _empty_pressure_features

\* a stroke with a point without a pressure between points with one
C9_Witness ==
    /\ called = "compute_pressure_features"
    /\ Len(StrokesOf(session)) = 1
    /\ Len(PointsOf(StrokesOf(session)[1])) = 3
    /\ Len(locals.pressures) = 2
    /\ ~HasPressure(PointsOf(StrokesOf(session)[1])[2])
    /\ features.pressure_min # features.pressure_max

\* whether the canvas has no width, no height, or one of them 0
DegenerateCanvas(canvas_size) ==
    Get(canvas_size, "width", 0) = 0 \/ Get(canvas_size, "height", 0) = 0

\* C10: canvas_coverage = bounding_box_area / (canvasWidth * canvasHeight),
\* with the denominator taken as 1 when the width or height is 0 or absent:
\* canvas_coverage then equals bounding_box_area, and nothing is divided by 0.
C10_CanvasCoverage ==
    (called = "compute_spatial_features" /\ "all_points" \in DOMAIN locals)
    => /\ IsFinite(features.canvas_coverage)
       /\ DegenerateCanvas(CanvasOf(session))
            => features.canvas_coverage = features.bounding_box_area
       /\ ~DegenerateCanvas(CanvasOf(session))
            => features.canvas_coverage
                 = FDiv(features.bounding_box_area,
                        FromInt(CanvasOf(session)["width"] * CanvasOf(session)["height"]))

\* whether no stroke of the session has a point
NoPoints(strokes) == \A s \in 1..Len(strokes) : Get(strokes[s], "points", <<>>) = <<>>

\* C11: compute_spatial_features returns the all-zero default record when the
\* session has no points (no strokes, or only strokes with an empty or absent
\* point list) or the canvas size is missing.
C11_SpatialDefault ==
    (/\ called = "compute_spatial_features"
     /\ NoPoints(StrokesOf(session)) \/ DOMAIN CanvasOf(session) = {})
    => (raised = "" /\ features = _empty_spatial_features)

\* a stroke with points and no canvas size
C11_Witness ==
    /\ called = "compute_spatial_features"
    /\ ~NoPoints(StrokesOf(session))
    /\ DOMAIN CanvasOf(session) = {}
    /\ features = _empty_spatial_features

\* C12: with zero strokes or one stroke compute_temporal_features returns
\* inter_stroke_pause_mean = inter_stroke_pause_std = inter_stroke_pause_max
\* = total_pause_time = 0, whatever the time fields of the stroke.
C12_NoPauseBelowTwoStrokes ==
    (called = "compute_temporal_features" /\ Len(StrokesOf(session)) <= 1)
    => /\ raised = ""
       /\ features.inter_stroke_pause_mean = Zero
       /\ features.inter_stroke_pause_std = Zero
       /\ features.inter_stroke_pause_max = Zero
       /\ features.total_pause_time = Zero

\* one stroke that starts after it ends
C12_Witness ==
    /\ called = "compute_temporal_features"
    /\ Len(StrokesOf(session)) = 1
    /\ DOMAIN StrokesOf(session)[1] = {"startTime", "endTime"}
    /\ StrokesOf(session)[1]["startTime"] > StrokesOf(session)[1]["endTime"]
    /\ features.total_pause_time = Zero

\* endTime - startTime of the strokes that have both fields
RECURSIVE TimedDurations(_)
TimedDurations(strokes) ==
    IF strokes = <<>> THEN <<>>
    ELSE (IF {"startTime", "endTime"} \subseteq DOMAIN Head(strokes)
          THEN <<Head(strokes)["endTime"] - Head(strokes)["startTime"]>>
          ELSE <<>>) \o TimedDurations(Tail(strokes))

\* C13: a stroke without startTime or endTime adds no sample to the duration
\* pool: stroke_duration_mean, _std and _max are those of the strokes that
\* have both fields, and 0 when no stroke has both.
C13_UntimedStrokesSkipped ==
    (called = "compute_temporal_features" /\ StrokesOf(session) # <<>>)
    => /\ raised = ""
       /\ locals.durations = TimedDurations(StrokesOf(session))
       /\ TimedDurations(StrokesOf(session)) # <<>>
            => /\ features.stroke_duration_mean
                    = NpMean(Ints2Floats(TimedDurations(StrokesOf(session))))
               /\ features.stroke_duration_std
                    = NpStd(Ints2Floats(TimedDurations(StrokesOf(session))))
               /\ features.stroke_duration_max
                    = FromInt(IntMax(TimedDurations(StrokesOf(session))))
       /\ TimedDurations(StrokesOf(session)) = <<>>
            => /\ features.stroke_duration_mean = Zero
               /\ features.stroke_duration_std = Zero
               /\ features.stroke_duration_max = Zero

\* a stroke without endTime between two strokes with both time fields
C13_Witness ==
    /\ called = "compute_temporal_features"
    /\ Len(StrokesOf(session)) = 3
    /\ DOMAIN StrokesOf(session)[2] = {"startTime"}
    /\ Len(locals.durations) = 2
    /\ features.stroke_duration_mean = FromInt(300)

\* C14: for one stroke with the points (0,0)@0, (3,4)@100, (6,8)@200,
\* velocity_mean = 0.05, velocity_std = 0 and path_length_total = 10.
C14_ExampleKinematics ==
    (called = "compute_kinematic_features" /\ session = ExampleSession)
    => /\ raised = ""
       /\ features.velocity_mean = Dec(1, 20)
       /\ features.velocity_std = Zero
       /\ features.path_length_total = FromInt(10)

C14_Witness ==
    /\ called = "compute_kinematic_features"
    /\ session = ExampleSession
    /\ locals.velocities = <<Dec(5, 100), Dec(5, 100)>>
    /\ locals.path_lengths = <<FromInt(5), FromInt(5)>>

\* the x (c = 1) or y (c = 2) coordinates of all points of the session
Coordinates(strokes, c) ==
    {Get(Get(strokes[s], "points", <<>>)[i], IF c = 1 THEN "x" ELSE "y", 0) :
        <<s, i>> \in {<<s, i>> \in (1..Len(strokes)) \X (1..MaxPoints + 1) :
                        i <= Len(Get(strokes[s], "points", <<>>))}}

\* max - min of a set of numbers
Spread(values) ==
    (CHOOSE hi \in values : \A v \in values : v <= hi)
    - (CHOOSE lo \in values : \A v \in values : lo <= v)

\* bounding_box_area is width * height of the axis-aligned bounding box of
\* all points, width = maxX - minX and height = maxY - minY
BoundingBoxOfAllPoints ==
    (called = "compute_spatial_features" /\ "all_points" \in DOMAIN locals)
    => /\ features.bounding_box_width = FromInt(Spread(Coordinates(StrokesOf(session), 1)))
       /\ features.bounding_box_height = FromInt(Spread(Coordinates(StrokesOf(session), 2)))
       /\ features.bounding_box_area
            = FromInt(Spread(Coordinates(StrokesOf(session), 1))
                      * Spread(Coordinates(StrokesOf(session), 2)))

\* C15 as amended: bounding_box_area is width * height of the axis-aligned
\* bounding box of all points (width = maxX - minX, height = maxY - minY); for
\* the points (0,0), (3,4), (6,8) on a 500 by 500 canvas it is 6 * 8 = 48.
C15_BoundingBoxArea ==
    /\ BoundingBoxOfAllPoints
    /\ (called = "compute_spatial_features" /\ session = ExampleSession)
         => features.bounding_box_area = FromInt(48)

C15_Witness ==
    /\ called = "compute_spatial_features"
    /\ session = ExampleSession
    /\ features.bounding_box_width = FromInt(6)
    /\ features.bounding_box_height = FromInt(8)
    /\ features.bounding_box_area = FromInt(48)

\* C15 as stated: the same, with bounding_box_area = 3 * 4 = 12 for the
\* points (0,0), (3,4), (6,8).
C15_AreaTwelve ==
    /\ BoundingBoxOfAllPoints
    /\ (called = "compute_spatial_features" /\ session = ExampleSession)
         => features.bounding_box_area = FromInt(12)

\* the sum of coordinate c over the points of the strokes s, s + 1, ...
RECURSIVE SumOfPoints(_, _, _)
SumOfPoints(strokes, s, c) ==
    IF s > Len(strokes) THEN 0
    ELSE IntSum([i \in 1..Len(Get(strokes[s], "points", <<>>)) |->
                    Get(Get(strokes[s], "points", <<>>)[i], IF c = 1 THEN "x" ELSE "y", 0)])
         + SumOfPoints(strokes, s + 1, c)

RECURSIVE CountOfPoints(_, _)
CountOfPoints(strokes, s) ==
    IF s > Len(strokes) THEN 0
    ELSE Len(Get(strokes[s], "points", <<>>)) + CountOfPoints(strokes, s + 1)

\* | mean of coordinate c of all points - canvas_dim / 2 |
OffsetFromCenter(strokes, c, canvas_dim) ==
    FAbs(FSub(FDiv(FromInt(SumOfPoints(strokes, 1, c)), FromInt(CountOfPoints(strokes, 1))),
              FDiv(FromInt(canvas_dim), FromInt(2))))

RECURSIVE DerivedBefore(_, _, _)
DerivedBefore(strokes, s, order) ==
    IF s <= 1 THEN 0
    ELSE DerivedBefore(strokes, s - 1, order)
         + (IF Len(PointsOf(strokes[s - 1])) > order
            THEN Len(PointsOf(strokes[s - 1])) - order
            ELSE 0)

\* the clamped time step of velocity sample i of a stroke (points i, i + 1)
StepOf(points, i) == IF RawDt(points, i) > 1 THEN RawDt(points, i) ELSE 1

\* sample k of stroke s in a pool
SampleOf(pool, s, order, k) == pool[DerivedBefore(StrokesOf(session), s, order) + k]

\* C20: within a stroke, acceleration sample k is (v[k] - v[k-1]) divided by
\* the clamped time step of v[k], and jerk sample k is (a[k] - a[k-1])
\* divided by the clamped time step a[k] was computed with; a stroke has
\* acceleration samples only with at least 2 velocity samples and jerk
\* samples only with at least 2 acceleration samples.
C20_DerivativeTimeSteps ==
    (called = "compute_kinematic_features" /\ raised = "" /\ StrokesOf(session) # <<>>)
    => /\ Len(locals.accelerations)
            = DerivedBefore(StrokesOf(session), Len(StrokesOf(session)) + 1, 2)
       /\ Len(locals.jerks)
            = DerivedBefore(StrokesOf(session), Len(StrokesOf(session)) + 1, 3)
       /\ \A s \in 1..Len(StrokesOf(session)) :
            /\ \A k \in 1..Len(PointsOf(StrokesOf(session)[s])) - 2 :
                  SampleOf(locals.accelerations, s, 2, k)
                    = FDiv(FSub(SampleOf(locals.velocities, s, 1, k + 1),
                                SampleOf(locals.velocities, s, 1, k)),
                           FromInt(StepOf(PointsOf(StrokesOf(session)[s]), k + 1)))
            /\ \A k \in 1..Len(PointsOf(StrokesOf(session)[s])) - 3 :
                  SampleOf(locals.jerks, s, 3, k)
                    = FDiv(FSub(SampleOf(locals.accelerations, s, 2, k + 1),
                                SampleOf(locals.accelerations, s, 2, k)),
                           FromInt(StepOf(PointsOf(StrokesOf(session)[s]), k + 2)))

\* a stroke of four points whose steps differ, with a jerk sample
C20_Witness ==
    /\ called = "compute_kinematic_features"
    /\ Len(StrokesOf(session)) = 1
    /\ Len(PointsOf(StrokesOf(session)[1])) = 4
    /\ StepOf(PointsOf(StrokesOf(session)[1]), 1) # StepOf(PointsOf(StrokesOf(session)[1]), 2)
    /\ StepOf(PointsOf(StrokesOf(session)[1]), 2) # StepOf(PointsOf(StrokesOf(session)[1]), 3)
    /\ Len(locals.accelerations) = 2
    /\ Len(locals.jerks) = 1
    /\ locals.jerks[1] # Zero

\* the batch result is the concatenation of the per-session results
BatchIsConcatenation ==
    called = "create_dataset"
    => /\ Len(locals.rows) = Len(sessions)
       /\ \A i \in 1..Len(sessions) : locals.rows[i] = extract_features(sessions[i])

\* a single call for a session, made after the batch loop processed it with
\* other sessions before or after it, returns the record of the batch
SingleCallAgrees ==
    (called = "create_dataset" /\ called' = "extract_features")
    => \A i \in 1..Len(locals.rows) : sessions[i] = session => features' = locals.rows[i]

\* C17: the feature record of a session A is the same whether another
\* session B is processed before A, after A or not at all, and whether A is
\* processed by a single call or inside the batch loop: the batch result is
\* the concatenation of the per-session results.
C17_NoCrossSessionState == []BatchIsConcatenation /\ [][SingleCallAgrees]_vars

\* a batch of a session with no field but its id, then the example session
C17_Witness ==
    /\ called = "create_dataset"
    /\ session = ExampleSession
    /\ sessions = <<[id |-> "s3"], ExampleSession>>
    /\ DOMAIN locals.rows[1] = {"session_id", "test_type", "created_at"}
    /\ "pressure_mean" \in DOMAIN locals.rows[2]

\* what an extractor returns for a session
SubRecord(name, s) ==
    CASE name = "compute_kinematic_features" -> compute_kinematic_features(StrokesOf(s)).features
      [] name = "compute_spatial_features"
            -> compute_spatial_features(StrokesOf(s), CanvasOf(s)).features
      [] name = "compute_temporal_features" -> compute_temporal_features(StrokesOf(s)).features
      [] name = "compute_pressure_features" -> compute_pressure_features(StrokesOf(s)).features

\* an extractor call leaves the instance and its arguments as they were,
\* and its sub-record is that of the session, whatever was called before
ExtractorCallIsPure ==
    called' \in Extractors
    => /\ feature_names' = feature_names
       /\ session' = session
       /\ features' = SubRecord(called', session)
       /\ called = called' => features' = features

\* C18: no call of the four compute_* extractors changes the instance state
\* (feature_names) or the strokes, points or canvas size passed in; the four
\* sub-records of a session are the same for any order and any number of
\* repetitions of the calls.
C18_ExtractorsPure == [][ExtractorCallIsPure]_vars

\* an extractor has computed statistics and feature_names is as constructed
C18_Witness ==
    /\ called = "compute_pressure_features"
    /\ feature_names = <<>>
    /\ StrokesOf(session) # <<>>
    /\ features # _empty_pressure_features

\* the number of sessions in the files of a data directory
RECURSIVE SessionsPresent(_)
SessionsPresent(json_files) ==
    IF json_files = <<>> THEN 0
    ELSE (IF Head(json_files).json = "list" THEN Len(Head(json_files).value)
          ELSE IF Head(json_files).json = "object" THEN 1
          ELSE 0) + SessionsPresent(Tail(json_files))

\* C19: after any sequence of load_sessions and create_dataset calls the
\* table of create_dataset holds exactly one feature record per session in
\* the files of the data directory: none is dropped, none appears twice.
C19_OneRecordPerSession ==
    called = "create_dataset" => Len(locals.rows) = SessionsPresent(data_dir)

\* the strokes in the order of a permutation of their indices
Reordered(strokes, order) == [i \in 1..Len(strokes) |-> strokes[order[i]]]

\* how often a pool holds a sample
Occurrences(pool, sample) == Cardinality({i \in 1..Len(pool) : pool[i] = sample})

\* whether two pools hold the same samples, each as often
SameSamples(pool, other) ==
    /\ Len(pool) = Len(other)
    /\ \A i \in 1..Len(pool) : Occurrences(pool, pool[i]) = Occurrences(other, pool[i])

\* the velocity and path-length samples are those of the point pairs within
\* each stroke, pooled in stroke order
PooledWithinStrokes ==
    (called = "compute_kinematic_features" /\ raised = "" /\ StrokesOf(session) # <<>>)
    => /\ Len(locals.velocities)
            = DerivedBefore(StrokesOf(session), Len(StrokesOf(session)) + 1, 1)
       /\ Len(locals.path_lengths) = Len(locals.velocities)
       /\ \A s \in 1..Len(StrokesOf(session)) :
            \A i \in 1..Len(PointsOf(StrokesOf(session)[s])) - 1 :
               /\ SampleOf(locals.path_lengths, s, 1, i)
                    = Dist(PointsOf(StrokesOf(session)[s])[i],
                           PointsOf(StrokesOf(session)[s])[i + 1])
               /\ SampleOf(locals.velocities, s, 1, i)
                    = FDiv(SampleOf(locals.path_lengths, s, 1, i),
                           FromInt(StepOf(PointsOf(StrokesOf(session)[s]), i)))

\* C21 as amended: velocity and path-length samples are pooled over all
\* strokes and never formed across a stroke boundary; their number is the
\* sum over strokes of max(0, number of points - 1); when the strokes are
\* reordered the pools hold the same samples in another order, so the
\* sample counts and velocity_max are unchanged (the sums, means and
\* standard deviations are equal up to floating-point rounding only).
C21_PooledWithinStrokes ==
    /\ PooledWithinStrokes
    /\ (called = "compute_kinematic_features" /\ raised = "" /\ StrokesOf(session) # <<>>)
         => \A order \in Permutations(1..Len(StrokesOf(session))) :
               /\ SameSamples(locals.velocities,
                              compute_kinematic_features(
                                 Reordered(StrokesOf(session), order)).locals.velocities)
               /\ SameSamples(locals.path_lengths,
                              compute_kinematic_features(
                                 Reordered(StrokesOf(session), order)).locals.path_lengths)
               /\ features.velocity_max
                    = compute_kinematic_features(
                         Reordered(StrokesOf(session), order)).features.velocity_max

\* two strokes with different velocity samples
C21_Witness ==
    /\ called = "compute_kinematic_features"
    /\ Len(StrokesOf(session)) = 2
    /\ Len(PointsOf(StrokesOf(session)[1])) = 2
    /\ Len(PointsOf(StrokesOf(session)[2])) = 3
    /\ Len(locals.velocities) = 3
    /\ locals.velocities[1] # locals.velocities[3]

\* C21 as stated: the same, with all kinematic statistics unchanged when the
\* strokes of the session are reordered.
C21_StatisticsUnchanged ==
    /\ PooledWithinStrokes
    /\ (called = "compute_kinematic_features" /\ raised = "" /\ StrokesOf(session) # <<>>)
         => \A order \in Permutations(1..Len(StrokesOf(session))) :
               features = compute_kinematic_features(
                             Reordered(StrokesOf(session), order)).features

\* strokes of fewer than 2 points: no points field, no point, one point
ShortStrokes == {EmptyDict, [points |-> <<>>], [points |-> <<[x |-> 3, y |-> 4, timestamp |-> 2]>>]}

\* the strokes with one more stroke after the first p of them
Inserted(strokes, p, stroke) ==
    SubSeq(strokes, 1, p) \o <<stroke>> \o SubSeq(strokes, p + 1, Len(strokes))

\* C22: adding a stroke with zero or one point (or with no points field)
\* anywhere in the stroke sequence leaves all nine kinematic features
\* unchanged.
C22_ShortStrokeAddsNothing ==
    (called = "compute_kinematic_features" /\ raised = "")
    => \A p \in 0..Len(StrokesOf(session)) : \A stroke \in ShortStrokes :
          /\ compute_kinematic_features(Inserted(StrokesOf(session), p, stroke)).raised = ""
          /\ compute_kinematic_features(Inserted(StrokesOf(session), p, stroke)).features
               = features

\* a session with path lengths that has a stroke of one point
C22_Witness ==
    /\ called = "compute_kinematic_features"
    /\ Len(StrokesOf(session)) = 2
    /\ Len(PointsOf(StrokesOf(session)[1])) = 1
    /\ Len(PointsOf(StrokesOf(session)[2])) = 3
    /\ features.path_length_mean # Zero
    /\ features.velocity_mean # Zero

\* the Euclidean distances between the consecutive points of a point list
RECURSIVE Distances(_)
Distances(points) ==
    IF Len(points) < 2 THEN <<>>
    ELSE <<FSqrt(FromInt((Get(points[2], "x", 0) - Get(points[1], "x", 0))
                         * (Get(points[2], "x", 0) - Get(points[1], "x", 0))
                         + (Get(points[2], "y", 0) - Get(points[1], "y", 0))
                           * (Get(points[2], "y", 0) - Get(points[1], "y", 0))))>>
         \o Distances(Tail(points))

\* the distances within each stroke, stroke after stroke
RECURSIVE AllDistances(_)
AllDistances(strokes) ==
    IF strokes = <<>> THEN <<>>
    ELSE Distances(PointsOf(Head(strokes))) \o AllDistances(Tail(strokes))

\* the strokes with the timestamp of every point replaced
Retimed(strokes, Time(_)) ==
    [s \in 1..Len(strokes) |->
        IF "points" \in DOMAIN strokes[s]
        THEN [strokes[s] EXCEPT !["points"] =
                [i \in 1..Len(strokes[s]["points"]) |->
                    [key \in DOMAIN strokes[s]["points"][i] \cup {"timestamp"} |->
                        IF key = "timestamp" THEN Time(i) ELSE strokes[s]["points"][i][key]]]]
        ELSE strokes[s]]

EverySeven(i) == 7 * i

\* the two path-length features of a feature record
PathLengthsOf(record) ==
    <<record["path_length_total"], record["path_length_mean"]>>

\* path_length_total is the sum of the distances within each stroke, and
\* neither path length depends on a timestamp
PathLengthsOfCoordinates ==
    (called = "compute_kinematic_features" /\ raised = "" /\ StrokesOf(session) # <<>>)
    => /\ features.path_length_total = PySum(AllDistances(StrokesOf(session)))
       /\ AllDistances(StrokesOf(session)) = <<>> => features.path_length_mean = Zero
       /\ PathLengthsOf(compute_kinematic_features(
              Retimed(StrokesOf(session), EverySeven)).features)
            = PathLengthsOf(features)

\* C23 as amended: path_length_total is the sum of the Euclidean distances
\* between consecutive points within each stroke and path_length_mean is
\* the mean of these distances as np.mean computes it (0 when there are
\* none), equal to the sum divided by their number up to floating-point
\* rounding; both depend only on point coordinates, not on timestamps.
C23_PathLengths ==
    /\ PathLengthsOfCoordinates
    /\ (called = "compute_kinematic_features" /\ raised = ""
        /\ AllDistances(StrokesOf(session)) # <<>>)
         => features.path_length_mean = NpMean(AllDistances(StrokesOf(session)))

\* the stroke of ten points: nine equal distances, summed in two orders
C23_Witness ==
    /\ called = "compute_kinematic_features"
    /\ session = DiagonalSession
    /\ Len(locals.path_lengths) = 9
    /\ features.path_length_mean
         # FDiv(features.path_length_total, FromInt(Len(locals.path_lengths)))

\* C23 as stated: the same, with path_length_mean the sum divided by the
\* number of point pairs.
C23_MeanIsTotalByCount ==
    /\ PathLengthsOfCoordinates
    /\ (called = "compute_kinematic_features" /\ raised = ""
        /\ AllDistances(StrokesOf(session)) # <<>>)
         => features.path_length_mean
              = FDiv(features.path_length_total,
                     FromInt(Len(AllDistances(StrokesOf(session)))))

\* the point with its absent x, y and timestamp written as 0
FilledPoint(point) ==
    [key \in DOMAIN point \cup {"x", "y", "timestamp"} |-> Get(point, key, 0)]

\* the strokes with every point filled in
Filled(strokes) ==
    [s \in 1..Len(strokes) |->
        IF "points" \in DOMAIN strokes[s]
        THEN [strokes[s] EXCEPT !["points"] =
                [i \in 1..Len(strokes[s]["points"]) |-> FilledPoint(strokes[s]["points"][i])]]
        ELSE strokes[s]]

\* some point of the strokes lacks x, y or timestamp
LacksField(strokes) ==
    \E s \in 1..Len(strokes) : \E i \in 1..Len(PointsOf(strokes[s])) :
        ~ ({"x", "y", "timestamp"} \subseteq DOMAIN PointsOf(strokes[s])[i])

\* C24: compute_kinematic_features treats a point lacking x, y or timestamp
\* as if that field were 0: the call raises nothing and its record is the
\* record of the session with every absent x, y and timestamp filled in as 0.
C24_AbsentFieldIsZero ==
    called = "compute_kinematic_features"
    => /\ raised = ""
       /\ compute_kinematic_features(Filled(StrokesOf(session))).raised = ""
       /\ features = compute_kinematic_features(Filled(StrokesOf(session))).features

\* a point without coordinates after a point away from the origin, and a
\* point without a timestamp after a point with a later one
C24_Witness ==
    /\ called = "compute_kinematic_features"
    /\ LacksField(StrokesOf(session))
    /\ PointsOf(StrokesOf(session)[1])
         = <<Point(3, 4, 2), [timestamp |-> 2], [x |-> 3, y |-> 4]>>
    /\ features.path_length_total = FromInt(10)
    /\ features.velocity_mean = FromInt(5)

\* the strokes that have both time fields, in stroke order
TimedStrokesOf(strokes) ==
    SelectSeq(strokes, LAMBDA stroke : {"startTime", "endTime"} \subseteq DOMAIN stroke)

\* every stroke with both time fields ends before it starts
AllEndBeforeStart(strokes) ==
    \A k \in 1..Len(TimedStrokesOf(strokes)) :
        TimedStrokesOf(strokes)[k]["endTime"] < TimedStrokesOf(strokes)[k]["startTime"]

\* C25: compute_temporal_features accepts strokes whose endTime is smaller
\* than startTime without raising: the duration sample of every stroke with
\* both fields is exactly endTime - startTime, not clamped, and
\* stroke_duration_mean and stroke_duration_max are the mean and maximum of
\* these samples, negative when every such stroke ends before it starts.
C25_NegativeDurationsKept ==
    (called = "compute_temporal_features" /\ StrokesOf(session) # <<>>)
    => /\ raised = ""
       /\ Len(locals.durations) = Len(TimedStrokesOf(StrokesOf(session)))
       /\ \A k \in 1..Len(locals.durations) :
            locals.durations[k]
              = TimedStrokesOf(StrokesOf(session))[k]["endTime"]
                  - TimedStrokesOf(StrokesOf(session))[k]["startTime"]
       /\ locals.durations # <<>>
            => /\ features.stroke_duration_mean = NpMean(Ints2Floats(locals.durations))
               /\ features.stroke_duration_max = FromInt(IntMax(locals.durations))
               /\ AllEndBeforeStart(StrokesOf(session))
                    => /\ FLess(features.stroke_duration_mean, Zero)
                       /\ FLess(features.stroke_duration_max, Zero)

\* a session in which every timed stroke ends before it starts
C25_Witness ==
    /\ called = "compute_temporal_features"
    /\ StrokesOf(session) # <<>>
    /\ AllEndBeforeStart(StrokesOf(session))
    /\ locals.durations = <<-200, -200>>
    /\ features.stroke_duration_max = FromInt(-200)
    /\ FLess(features.stroke_duration_mean, Zero)

\* the point indices read for the accelerations and the jerks of a stroke
DerivativeReads(points) ==
    AccelReads(StrokeVelocities(points))
      \cup JerkReads(StrokeAccelerations(points, StrokeVelocities(points)))

\* C26: for every stroke with n >= 2 points, every index used to read the
\* point list for the accelerations (points[i+1], points[i]) and the jerks
\* (points[i+2], points[i+1]) lies within 0..n-1, so the call never raises
\* IndexError.
C26_ReadsWithinStroke ==
    called = "compute_kinematic_features"
    => /\ raised # "IndexError"
       /\ \A s \in 1..Len(StrokesOf(session)) :
            Len(PointsOf(StrokesOf(session)[s])) >= 2
            => DerivativeReads(PointsOf(StrokesOf(session)[s]))
                 \subseteq 0..Len(PointsOf(StrokesOf(session)[s])) - 1

\* a stroke whose jerk loop reads its last point
C26_Witness ==
    /\ called = "compute_kinematic_features"
    /\ raised = ""
    /\ Len(StrokesOf(session)) = 1
    /\ Len(PointsOf(StrokesOf(session)[1])) = 4
    /\ 3 \in JerkReads(locals.accelerations)
    /\ Len(locals.jerks) = 1

\* the session has a point
HasPoint(strokes) == \E s \in 1..Len(strokes) : PointsOf(strokes[s]) # <<>>

\* the canvas has a width and a height, both positive
PositiveCanvas(canvas_size) ==
    /\ {"width", "height"} \subseteq DOMAIN canvas_size
    /\ canvas_size["width"] > 0
    /\ canvas_size["height"] > 0

\* every point lies within the canvas
WithinCanvas(strokes, canvas_size) ==
    \A s \in 1..Len(strokes) : \A i \in 1..Len(PointsOf(strokes[s])) :
        /\ 0 <= Get(PointsOf(strokes[s])[i], "x", 0)
        /\ Get(PointsOf(strokes[s])[i], "x", 0) <= canvas_size["width"]
        /\ 0 <= Get(PointsOf(strokes[s])[i], "y", 0)
        /\ Get(PointsOf(strokes[s])[i], "y", 0) <= canvas_size["height"]

\* C27: for every session with at least one point and a canvas of positive
\* width and height, bounding_box_width, bounding_box_height and
\* bounding_box_area are non-negative, and when every point lies within the
\* canvas, canvas_coverage lies between 0 and 1.
C27_BoxWithinCanvas ==
    (called = "compute_spatial_features" /\ HasPoint(StrokesOf(session))
     /\ PositiveCanvas(CanvasOf(session)))
    => /\ raised = ""
       /\ FLeq(Zero, features.bounding_box_width)
       /\ FLeq(Zero, features.bounding_box_height)
       /\ FLeq(Zero, features.bounding_box_area)
       /\ WithinCanvas(StrokesOf(session), CanvasOf(session))
            => /\ FLeq(Zero, features.canvas_coverage)
               /\ FLeq(features.canvas_coverage, FromInt(1))

\* a drawing within the canvas that covers three eighths of it
C27_Witness ==
    /\ called = "compute_spatial_features"
    /\ HasPoint(StrokesOf(session))
    /\ PositiveCanvas(CanvasOf(session))
    /\ WithinCanvas(StrokesOf(session), CanvasOf(session))
    /\ features.bounding_box_area = FromInt(48)
    /\ features.canvas_coverage = Dec(3, 8)

LoaderTimingKeys == {"stroke_duration_mean", "stroke_duration_std"}

LoaderPressureKeys == {"pressure_mean", "pressure_std", "pressure_min", "pressure_max"}

\* C28: for every non-empty stroke list, the statistics that
\* DataLoader._compute_stroke_features emits (stroke_duration_mean and _std,
\* pressure_mean, _std, _min and _max), whenever it emits them, equal the
\* values that FeatureEngineer.compute_temporal_features and
\* compute_pressure_features return for the same strokes.
C28_LoaderAgreesWithEngineer ==
    (called = "extract_features" /\ raised = "" /\ StrokesOf(session) # <<>>)
    => /\ compute_temporal_features(StrokesOf(session)).raised = ""
       /\ compute_pressure_features(StrokesOf(session)).raised = ""
       /\ \A key \in LoaderTimingKeys \cap DOMAIN features :
            features[key] = compute_temporal_features(StrokesOf(session)).features[key]
       /\ \A key \in LoaderPressureKeys \cap DOMAIN features :
            features[key] = compute_pressure_features(StrokesOf(session)).features[key]

\* a timed stroke with two points of different pressure: all six emitted
C28_Witness ==
    /\ called = "extract_features"
    /\ StrokesOf(session) # <<>>
    /\ LoaderTimingKeys \cup LoaderPressureKeys \subseteq DOMAIN features
    /\ features["stroke_duration_mean"] = FromInt(100)
    /\ features["pressure_min"] = Dec(1, 2)
    /\ features["pressure_max"] = Dec(7, 10)
    /\ features["pressure_std"] # Zero

\* whether the file can be opened and parsed
Parsable(file) == file.json # "invalid"

\* the sessions of the parsable files of a directory, file after file
LoadedFrom(json_files) ==
    Flatten([f \in 1..Len(json_files) |->
                IF ~Parsable(json_files[f]) THEN <<>>
                ELSE IF json_files[f].json = "list" THEN json_files[f].value
                ELSE <<json_files[f].value>>])

\* C29: in load_sessions a file that cannot be opened or parsed adds no
\* session to the loader's list and does not stop the load: the call
\* returns normally, having appended the sessions of every other file of
\* the directory, in file order, and nothing else.
C29_UnparsableFileSkipped ==
    [][called' = "load_sessions"
       => /\ raised' = ""
          /\ sessions' = sessions \o LoadedFrom(data_dir)
          /\ sessions' = sessions \o LoadedFrom(SelectSeq(data_dir, Parsable))]_vars

\* a directory whose first file cannot be parsed, loaded
C29_Witness ==
    /\ called = "load_sessions"
    /\ raised = ""
    /\ Len(data_dir) = 2
    /\ ~Parsable(data_dir[1])
    /\ Parsable(data_dir[2])
    /\ sessions = <<ExampleSession, [id |-> "s3"]>>

\* the scripts of the steps that are not skipped, in the order of the steps
Planned(skips) == SelectSeq(Scripts, LAMBDA script :
                      \E i \in 1..Len(Scripts) : Scripts[i] = script /\ ~skips[SkipFlags[i]])

IsPrefix(short, long) ==
    Len(short) <= Len(long) /\ \A i \in 1..Len(short) : short[i] = long[i]

\* every script started so far exited with code 0
AllSucceeded == \A i \in 1..Len(returncodes) : returncodes[i] = 0

\* C30: the pipeline runs its non-skipped steps in the fixed order data
\* preparation, feature engineering, model training, model evaluation,
\* model export; as soon as one step's script exits non-zero no later step
\* is started and the pipeline returns 1; it returns 0 exactly when every
\* non-skipped step succeeded.
C30_PipelineStopsAtFirstFailure ==
    /\ Len(returncodes) = Len(started)
    /\ IsPrefix(started, Planned(args))
    /\ \A i \in 1..Len(returncodes) :
          returncodes[i] # 0 => (i = Len(started) /\ returned = <<1>>)
    /\ returned \in {<<>>, <<0>>, <<1>>}
    /\ returned = <<1>> => ~AllSucceeded
    /\ returned = <<0>> => (started = Planned(args) /\ AllSucceeded)

\* the second of three steps that are not skipped failed
C30_Witness ==
    /\ args["skip_feature_eng"]
    /\ args["skip_export"]
    /\ started = <<"01_data_preparation.py", "03_model_training.py">>
    /\ returncodes = <<0, 2>>
    /\ returned = <<1>>

====
